---- MODULE Spec2Model ----
(***************************************************************************)
(* Model of scripts/generate_anomaly_report.py: the "Twin Number" anomaly *)
(* report.  Python strings are modelled as sequences of one-character     *)
(* strings, so that prefix tests, slicing, int() parsing, str() rendering *)
(* and the ":04d" format are computed character by character.             *)
(***************************************************************************)
EXTENDS Integers, Sequences, FiniteSets, TLC

(***************************************************************************)
(* Bounds of the model.                                                    *)
(***************************************************************************)
\* number of area files in the MP directory of the multi-area specification
MaxAreas == 3

(***************************************************************************)
(* String helpers (Python str operations used by the script).              *)
(***************************************************************************)
\* Python's None; a one-element sequence whose element is no single character,
\* hence different from every modelled string.
None == <<"None">>

\* bool(x) for x a string or None
Truthy(s) == s # None /\ s # <<>>

\* str.startswith
StartsWith(s, p) == Len(s) >= Len(p) /\ SubSeq(s, 1, Len(p)) = p

\* str.endswith
EndsWith(s, p) == Len(s) >= Len(p) /\ SubSeq(s, Len(s) - Len(p) + 1, Len(s)) = p

\* str.replace(p, ""): removes every non-overlapping occurrence, left to right
RECURSIVE RemoveAll(_, _)
RemoveAll(s, p) ==
    IF Len(s) < Len(p) \/ Len(p) = 0 THEN s
    ELSE IF StartsWith(s, p) THEN RemoveAll(SubSeq(s, Len(p) + 1, Len(s)), p)
    ELSE <<Head(s)>> \o RemoveAll(Tail(s), p)

\* the characters that occur in file names, in code-point order
Ascii == <<".", "0", "1", "2", "3", "4", "5", "6", "7", "8", "9",
           "e", "j", "n", "o", "s", "t", "x">>

Ord(c) == CHOOSE k \in 1..Len(Ascii) : Ascii[k] = c

\* a < b for Python strings (lexicographic by code point)
RECURSIVE StrLess(_, _)
StrLess(a, b) ==
    IF b = <<>> THEN FALSE
    ELSE IF a = <<>> THEN TRUE
    ELSE IF Head(a) = Head(b) THEN StrLess(Tail(a), Tail(b))
    ELSE Ord(Head(a)) < Ord(Head(b))

\* sorted(names) for a collection of distinct names
RECURSIVE SortedNames(_)
SortedNames(S) ==
    IF S = {} THEN <<>>
    ELSE LET m == CHOOSE x \in S : \A y \in S \ {x} : StrLess(x, y)
         IN  <<m>> \o SortedNames(S \ {m})

DigitChars == <<"0", "1", "2", "3", "4", "5", "6", "7", "8", "9">>

\* A character beyond ASCII is written as its code point, e.g. "U+00A0".
\* The decimal digits beyond ASCII (Unicode category Nd), which int() accepts
\* with their decimal value: ten to a block, in the order 0..9.
UnicodeDigits ==
    << <<"U+0660", "U+0661", "U+0662", "U+0663", "U+0664",
         "U+0665", "U+0666", "U+0667", "U+0668", "U+0669">>,
       <<"U+06F0", "U+06F1", "U+06F2", "U+06F3", "U+06F4",
         "U+06F5", "U+06F6", "U+06F7", "U+06F8", "U+06F9">>,
       <<"U+07C0", "U+07C1", "U+07C2", "U+07C3", "U+07C4",
         "U+07C5", "U+07C6", "U+07C7", "U+07C8", "U+07C9">>,
       <<"U+0966", "U+0967", "U+0968", "U+0969", "U+096A",
         "U+096B", "U+096C", "U+096D", "U+096E", "U+096F">>,
       <<"U+09E6", "U+09E7", "U+09E8", "U+09E9", "U+09EA",
         "U+09EB", "U+09EC", "U+09ED", "U+09EE", "U+09EF">>,
       <<"U+0A66", "U+0A67", "U+0A68", "U+0A69", "U+0A6A",
         "U+0A6B", "U+0A6C", "U+0A6D", "U+0A6E", "U+0A6F">>,
       <<"U+0AE6", "U+0AE7", "U+0AE8", "U+0AE9", "U+0AEA",
         "U+0AEB", "U+0AEC", "U+0AED", "U+0AEE", "U+0AEF">>,
       <<"U+0B66", "U+0B67", "U+0B68", "U+0B69", "U+0B6A",
         "U+0B6B", "U+0B6C", "U+0B6D", "U+0B6E", "U+0B6F">>,
       <<"U+0BE6", "U+0BE7", "U+0BE8", "U+0BE9", "U+0BEA",
         "U+0BEB", "U+0BEC", "U+0BED", "U+0BEE", "U+0BEF">>,
       <<"U+0C66", "U+0C67", "U+0C68", "U+0C69", "U+0C6A",
         "U+0C6B", "U+0C6C", "U+0C6D", "U+0C6E", "U+0C6F">>,
       <<"U+0CE6", "U+0CE7", "U+0CE8", "U+0CE9", "U+0CEA",
         "U+0CEB", "U+0CEC", "U+0CED", "U+0CEE", "U+0CEF">>,
       <<"U+0D66", "U+0D67", "U+0D68", "U+0D69", "U+0D6A",
         "U+0D6B", "U+0D6C", "U+0D6D", "U+0D6E", "U+0D6F">>,
       <<"U+0DE6", "U+0DE7", "U+0DE8", "U+0DE9", "U+0DEA",
         "U+0DEB", "U+0DEC", "U+0DED", "U+0DEE", "U+0DEF">>,
       <<"U+0E50", "U+0E51", "U+0E52", "U+0E53", "U+0E54",
         "U+0E55", "U+0E56", "U+0E57", "U+0E58", "U+0E59">>,
       <<"U+0ED0", "U+0ED1", "U+0ED2", "U+0ED3", "U+0ED4",
         "U+0ED5", "U+0ED6", "U+0ED7", "U+0ED8", "U+0ED9">>,
       <<"U+0F20", "U+0F21", "U+0F22", "U+0F23", "U+0F24",
         "U+0F25", "U+0F26", "U+0F27", "U+0F28", "U+0F29">>,
       <<"U+1040", "U+1041", "U+1042", "U+1043", "U+1044",
         "U+1045", "U+1046", "U+1047", "U+1048", "U+1049">>,
       <<"U+1090", "U+1091", "U+1092", "U+1093", "U+1094",
         "U+1095", "U+1096", "U+1097", "U+1098", "U+1099">>,
       <<"U+17E0", "U+17E1", "U+17E2", "U+17E3", "U+17E4",
         "U+17E5", "U+17E6", "U+17E7", "U+17E8", "U+17E9">>,
       <<"U+1810", "U+1811", "U+1812", "U+1813", "U+1814",
         "U+1815", "U+1816", "U+1817", "U+1818", "U+1819">>,
       <<"U+1946", "U+1947", "U+1948", "U+1949", "U+194A",
         "U+194B", "U+194C", "U+194D", "U+194E", "U+194F">>,
       <<"U+19D0", "U+19D1", "U+19D2", "U+19D3", "U+19D4",
         "U+19D5", "U+19D6", "U+19D7", "U+19D8", "U+19D9">>,
       <<"U+1A80", "U+1A81", "U+1A82", "U+1A83", "U+1A84",
         "U+1A85", "U+1A86", "U+1A87", "U+1A88", "U+1A89">>,
       <<"U+1A90", "U+1A91", "U+1A92", "U+1A93", "U+1A94",
         "U+1A95", "U+1A96", "U+1A97", "U+1A98", "U+1A99">>,
       <<"U+1B50", "U+1B51", "U+1B52", "U+1B53", "U+1B54",
         "U+1B55", "U+1B56", "U+1B57", "U+1B58", "U+1B59">>,
       <<"U+1BB0", "U+1BB1", "U+1BB2", "U+1BB3", "U+1BB4",
         "U+1BB5", "U+1BB6", "U+1BB7", "U+1BB8", "U+1BB9">>,
       <<"U+1C40", "U+1C41", "U+1C42", "U+1C43", "U+1C44",
         "U+1C45", "U+1C46", "U+1C47", "U+1C48", "U+1C49">>,
       <<"U+1C50", "U+1C51", "U+1C52", "U+1C53", "U+1C54",
         "U+1C55", "U+1C56", "U+1C57", "U+1C58", "U+1C59">>,
       <<"U+A620", "U+A621", "U+A622", "U+A623", "U+A624",
         "U+A625", "U+A626", "U+A627", "U+A628", "U+A629">>,
       <<"U+A8D0", "U+A8D1", "U+A8D2", "U+A8D3", "U+A8D4",
         "U+A8D5", "U+A8D6", "U+A8D7", "U+A8D8", "U+A8D9">>,
       <<"U+A900", "U+A901", "U+A902", "U+A903", "U+A904",
         "U+A905", "U+A906", "U+A907", "U+A908", "U+A909">>,
       <<"U+A9D0", "U+A9D1", "U+A9D2", "U+A9D3", "U+A9D4",
         "U+A9D5", "U+A9D6", "U+A9D7", "U+A9D8", "U+A9D9">>,
       <<"U+A9F0", "U+A9F1", "U+A9F2", "U+A9F3", "U+A9F4",
         "U+A9F5", "U+A9F6", "U+A9F7", "U+A9F8", "U+A9F9">>,
       <<"U+AA50", "U+AA51", "U+AA52", "U+AA53", "U+AA54",
         "U+AA55", "U+AA56", "U+AA57", "U+AA58", "U+AA59">>,
       <<"U+ABF0", "U+ABF1", "U+ABF2", "U+ABF3", "U+ABF4",
         "U+ABF5", "U+ABF6", "U+ABF7", "U+ABF8", "U+ABF9">>,
       <<"U+FF10", "U+FF11", "U+FF12", "U+FF13", "U+FF14",
         "U+FF15", "U+FF16", "U+FF17", "U+FF18", "U+FF19">>,
       <<"U+104A0", "U+104A1", "U+104A2", "U+104A3", "U+104A4",
         "U+104A5", "U+104A6", "U+104A7", "U+104A8", "U+104A9">>,
       <<"U+10D30", "U+10D31", "U+10D32", "U+10D33", "U+10D34",
         "U+10D35", "U+10D36", "U+10D37", "U+10D38", "U+10D39">>,
       <<"U+11066", "U+11067", "U+11068", "U+11069", "U+1106A",
         "U+1106B", "U+1106C", "U+1106D", "U+1106E", "U+1106F">>,
       <<"U+110F0", "U+110F1", "U+110F2", "U+110F3", "U+110F4",
         "U+110F5", "U+110F6", "U+110F7", "U+110F8", "U+110F9">>,
       <<"U+11136", "U+11137", "U+11138", "U+11139", "U+1113A",
         "U+1113B", "U+1113C", "U+1113D", "U+1113E", "U+1113F">>,
       <<"U+111D0", "U+111D1", "U+111D2", "U+111D3", "U+111D4",
         "U+111D5", "U+111D6", "U+111D7", "U+111D8", "U+111D9">>,
       <<"U+112F0", "U+112F1", "U+112F2", "U+112F3", "U+112F4",
         "U+112F5", "U+112F6", "U+112F7", "U+112F8", "U+112F9">>,
       <<"U+11450", "U+11451", "U+11452", "U+11453", "U+11454",
         "U+11455", "U+11456", "U+11457", "U+11458", "U+11459">>,
       <<"U+114D0", "U+114D1", "U+114D2", "U+114D3", "U+114D4",
         "U+114D5", "U+114D6", "U+114D7", "U+114D8", "U+114D9">>,
       <<"U+11650", "U+11651", "U+11652", "U+11653", "U+11654",
         "U+11655", "U+11656", "U+11657", "U+11658", "U+11659">>,
       <<"U+116C0", "U+116C1", "U+116C2", "U+116C3", "U+116C4",
         "U+116C5", "U+116C6", "U+116C7", "U+116C8", "U+116C9">>,
       <<"U+11730", "U+11731", "U+11732", "U+11733", "U+11734",
         "U+11735", "U+11736", "U+11737", "U+11738", "U+11739">>,
       <<"U+118E0", "U+118E1", "U+118E2", "U+118E3", "U+118E4",
         "U+118E5", "U+118E6", "U+118E7", "U+118E8", "U+118E9">>,
       <<"U+11950", "U+11951", "U+11952", "U+11953", "U+11954",
         "U+11955", "U+11956", "U+11957", "U+11958", "U+11959">>,
       <<"U+11C50", "U+11C51", "U+11C52", "U+11C53", "U+11C54",
         "U+11C55", "U+11C56", "U+11C57", "U+11C58", "U+11C59">>,
       <<"U+11D50", "U+11D51", "U+11D52", "U+11D53", "U+11D54",
         "U+11D55", "U+11D56", "U+11D57", "U+11D58", "U+11D59">>,
       <<"U+11DA0", "U+11DA1", "U+11DA2", "U+11DA3", "U+11DA4",
         "U+11DA5", "U+11DA6", "U+11DA7", "U+11DA8", "U+11DA9">>,
       <<"U+16A60", "U+16A61", "U+16A62", "U+16A63", "U+16A64",
         "U+16A65", "U+16A66", "U+16A67", "U+16A68", "U+16A69">>,
       <<"U+16AC0", "U+16AC1", "U+16AC2", "U+16AC3", "U+16AC4",
         "U+16AC5", "U+16AC6", "U+16AC7", "U+16AC8", "U+16AC9">>,
       <<"U+16B50", "U+16B51", "U+16B52", "U+16B53", "U+16B54",
         "U+16B55", "U+16B56", "U+16B57", "U+16B58", "U+16B59">>,
       <<"U+1D7CE", "U+1D7CF", "U+1D7D0", "U+1D7D1", "U+1D7D2",
         "U+1D7D3", "U+1D7D4", "U+1D7D5", "U+1D7D6", "U+1D7D7">>,
       <<"U+1D7D8", "U+1D7D9", "U+1D7DA", "U+1D7DB", "U+1D7DC",
         "U+1D7DD", "U+1D7DE", "U+1D7DF", "U+1D7E0", "U+1D7E1">>,
       <<"U+1D7E2", "U+1D7E3", "U+1D7E4", "U+1D7E5", "U+1D7E6",
         "U+1D7E7", "U+1D7E8", "U+1D7E9", "U+1D7EA", "U+1D7EB">>,
       <<"U+1D7EC", "U+1D7ED", "U+1D7EE", "U+1D7EF", "U+1D7F0",
         "U+1D7F1", "U+1D7F2", "U+1D7F3", "U+1D7F4", "U+1D7F5">>,
       <<"U+1D7F6", "U+1D7F7", "U+1D7F8", "U+1D7F9", "U+1D7FA",
         "U+1D7FB", "U+1D7FC", "U+1D7FD", "U+1D7FE", "U+1D7FF">>,
       <<"U+1E140", "U+1E141", "U+1E142", "U+1E143", "U+1E144",
         "U+1E145", "U+1E146", "U+1E147", "U+1E148", "U+1E149">>,
       <<"U+1E2F0", "U+1E2F1", "U+1E2F2", "U+1E2F3", "U+1E2F4",
         "U+1E2F5", "U+1E2F6", "U+1E2F7", "U+1E2F8", "U+1E2F9">>,
       <<"U+1E950", "U+1E951", "U+1E952", "U+1E953", "U+1E954",
         "U+1E955", "U+1E956", "U+1E957", "U+1E958", "U+1E959">>,
       <<"U+1FBF0", "U+1FBF1", "U+1FBF2", "U+1FBF3", "U+1FBF4",
         "U+1FBF5", "U+1FBF6", "U+1FBF7", "U+1FBF8", "U+1FBF9">> >>

IsDigit(c) ==
    \/ \E k \in 1..10 : DigitChars[k] = c
    \/ \E b \in 1..Len(UnicodeDigits) : \E k \in 1..10 : UnicodeDigits[b][k] = c

DigitVal(c) ==
    (CHOOSE k \in 1..10 :
        \/ DigitChars[k] = c
        \/ \E b \in 1..Len(UnicodeDigits) : UnicodeDigits[b][k] = c) - 1

\* decimal digits of a natural number, no leading zeros
RECURSIVE NatDigits(_)
NatDigits(n) ==
    IF n < 10 THEN <<DigitChars[n + 1]>>
    ELSE NatDigits(n \div 10) \o <<DigitChars[(n % 10) + 1]>>

\* str(n) for an int
PyStr(n) == IF n < 0 THEN <<"-">> \o NatDigits(0 - n) ELSE NatDigits(n)

\* U+000B, written as the character itself (it has no escape)
VerticalTab == ""

\* the spaces beyond ASCII
UnicodeSpaces ==
    { "U+0085", "U+00A0", "U+1680", "U+2000", "U+2001", "U+2002",
      "U+2003", "U+2004", "U+2005", "U+2006", "U+2007", "U+2008",
      "U+2009", "U+200A", "U+2028", "U+2029", "U+202F", "U+205F",
      "U+3000" }

\* the characters int() ignores around the literal
Whitespace == {" ", "\t", "\n", "\r", "\f", VerticalTab} \cup UnicodeSpaces

\* the leading and trailing whitespace int() skips
RECURSIVE LStrip(_)
LStrip(s) == IF s # <<>> /\ Head(s) \in Whitespace THEN LStrip(Tail(s)) ELSE s

RECURSIVE RStrip(_)
RStrip(s) ==
    IF s # <<>> /\ s[Len(s)] \in Whitespace THEN RStrip(SubSeq(s, 1, Len(s) - 1))
    ELSE s

\* value of a non-empty run of digits and underscores
RECURSIVE DigitsValue(_, _)
DigitsValue(s, acc) ==
    IF s = <<>> THEN acc
    ELSE IF Head(s) = "_" THEN DigitsValue(Tail(s), acc)
    ELSE DigitsValue(Tail(s), 10 * acc + DigitVal(Head(s)))

\* the body s from its first digit other than zero on (<<>> when there is none):
\* the zeros and underscores before it add nothing to the value
Significant(s) ==
    LET nonzero == {k \in 1..Len(s) : s[k] # "_" /\ DigitVal(s[k]) # 0}
    IN  IF nonzero = {} THEN <<>>
        ELSE SubSeq(s, CHOOSE k \in nonzero : \A j \in nonzero : k <= j, Len(s))

\* the most digits int() converts; a longer literal raises ValueError
\* (sys.int_info.default_max_str_digits, which the script leaves as it is)
MaxStrDigits == 4300

\* the body of an int literal: digits, single underscores only between digits,
\* and no more than MaxStrDigits digits, leading zeros counted
IntBodyOk(s) ==
    /\ s # <<>>
    /\ \A k \in 1..Len(s) : IsDigit(s[k]) \/ s[k] = "_"
    /\ IsDigit(s[1]) /\ IsDigit(s[Len(s)])
    /\ \A k \in 1..(Len(s) - 1) : ~(s[k] = "_" /\ s[k + 1] = "_")
    /\ Cardinality({k \in 1..Len(s) : s[k] # "_"}) <= MaxStrDigits

\* int(s): [ok |-> FALSE] stands for ValueError
PyInt(s) ==
    LET t    == RStrip(LStrip(s))
        neg  == t # <<>> /\ Head(t) = "-"
        sgn  == t # <<>> /\ Head(t) \in {"-", "+"}
        body == IF sgn THEN Tail(t) ELSE t
    IN  IF IntBodyOk(body)
        THEN [ok |-> TRUE,
              val |-> IF neg THEN 0 - DigitsValue(Significant(body), 0)
                      ELSE DigitsValue(Significant(body), 0)]
        ELSE [ok |-> FALSE, val |-> 0]

\* s left-padded with "0" to width w
RECURSIVE ZeroPad(_, _)
ZeroPad(s, w) == IF Len(s) >= w THEN s ELSE ZeroPad(<<"0">> \o s, w)

\* f"{n:04d}": the sign counts in the width
Format04d(n) ==
    IF n < 0 THEN <<"-">> \o ZeroPad(NatDigits(0 - n), 3)
    ELSE ZeroPad(NatDigits(n), 4)

\* dict.get(k, d)
Get(e, k, d) == IF k \in DOMAIN e THEN e[k] ELSE d

(***************************************************************************)
(* Configuration of the script.                                            *)
(***************************************************************************)
JSON_EXT == <<".", "j", "s", "o", "n">>

PROVINCE_PREFIX == <<"P", "R", "O", "V", "I", "N", "C", "E", "-">>

CANDIDATE_PREFIX == <<"C", "A", "N", "D", "I", "D", "A", "T", "E", "-", "M", "P", "-">>

PARTY_PREFIX == <<"P", "A", "R", "T", "Y", "-">>

Unknown == <<"U", "n", "k", "n", "o", "w", "n">>

InList(x, L) == \E k \in 1..Len(L) : L[k] = x

\* [str(i) for i in range(1, 10)]
SINGLE_DIGIT_RANGE == [k \in 1..9 |-> PyStr(k)]

\* variant of EXCLUDED_PARTIES that forgets 9
EXCLUDED_PARTIES_only6 == << <<"6">> >>

EXCLUDED_PARTIES == << <<"6">>, <<"9">> >>

\* the rank limit of the report filter ("pl_rank <= 7")
TopRank == 7

\* number of decimal places kept by round(ratio, 4), as a power of ten
RatioScale == 10000

(***************************************************************************)
(* Reference loader.                                                       *)
(***************************************************************************)
EmptyMap == [c \in {} |-> <<>>]

\* {p["code"].replace("PROVINCE-", ""): p["name"] for p in provinces}: a later
\* entry with the same key overrides an earlier one
ProvinceDict(provs) ==
    LET key(k) == RemoveAll(provs[k].code, PROVINCE_PREFIX)
        keys   == {key(k) : k \in 1..Len(provs)}
        last(c) == CHOOSE k \in 1..Len(provs) :
                      key(k) = c /\ \A j \in (k + 1)..Len(provs) : key(j) # c
    IN  [c \in keys |-> provs[last(c)].name]

\* cd = [exists, readable, provinces]: the common-data file
load_province_map(cd) ==
    IF ~cd.exists THEN EmptyMap
    ELSE IF ~cd.readable THEN EmptyMap
    ELSE ProvinceDict(cd.provinces)

Prefix2(area_code) == SubSeq(area_code, 1, IF Len(area_code) < 2 THEN Len(area_code) ELSE 2)

\* returns <<prefix, name>>
get_province_info(area_code, province_map) ==
    LET prefix == Prefix2(area_code)
    IN  <<prefix, Get(province_map, prefix, Unknown \o <<" ", "(">> \o prefix \o <<")">>)>>

(***************************************************************************)
(* Twin matcher.                                                           *)
(***************************************************************************)
get_candidate_number_str(candidate_code, area_code) ==
    LET prefix == CANDIDATE_PREFIX \o area_code
    IN  IF Truthy(candidate_code) /\ StartsWith(candidate_code, prefix)
        THEN LET raw_num == SubSeq(candidate_code, Len(prefix) + 1, Len(candidate_code))
                 n       == PyInt(raw_num)
             IN  IF n.ok THEN PyStr(n.val) ELSE None
        ELSE None

\* next((k for k, e in enumerate(entries) if e.get("partyCode") == party), None);
\* 0 stands for None
FirstWithParty(entries, party) ==
    LET hits == {k \in 1..Len(entries) :
                    "partyCode" \in DOMAIN entries[k] /\ entries[k].partyCode = party}
    IN  IF hits = {} THEN 0 ELSE CHOOSE k \in hits : \A j \in hits : k <= j

\* bits of the mantissa of a float
MantissaBits == 53

\* number of binary digits of a natural number
RECURSIVE BitLength(_)
BitLength(n) == IF n = 0 THEN 0 ELSE 1 + BitLength(n \div 2)

\* long division of (quot + rem/den) to `places` more decimal places:
\* <<truncated quotient, remainder>>, with 0 <= rem < den
RECURSIVE DecimalDivide(_, _, _, _)
DecimalDivide(quot, rem, den, places) ==
    IF places = 0 THEN <<quot, rem>>
    ELSE DecimalDivide(10 * quot + (10 * rem) \div den, (10 * rem) % den, den,
                       places - 1)

\* The float that "/" returns is the quotient rounded to 53 significant bits,
\* ties to even.  Reads the bits of rem/den after the binary point until `left`
\* mantissa bits are filled (`started`: a 1 bit has been seen, `odd`: the last
\* mantissa bit is 1), then the guard bit and the rest: 1 when the float is
\* above the exact quotient, -1 when below, 0 when the quotient is a float.
RECURSIVE FloatSide(_, _, _, _, _)
FloatSide(rem, den, left, started, odd) ==
    LET bit  == IF 2 * rem >= den THEN 1 ELSE 0
        rest == 2 * rem - bit * den
    IN  IF rem = 0 THEN 0
        ELSE IF left = 0 THEN (IF bit = 1 /\ (rest # 0 \/ odd) THEN 1 ELSE -1)
        ELSE IF ~started /\ bit = 0 THEN FloatSide(rest, den, left, FALSE, FALSE)
        ELSE FloatSide(rest, den, left - 1, TRUE, bit = 1)

\* pl_votes / base_votes (pl_votes >= 0, base_votes > 0) against the exact quotient
DivideSide(pl_votes, base_votes) ==
    LET whole == pl_votes \div base_votes
    IN  FloatSide(pl_votes % base_votes, base_votes, MantissaBits - BitLength(whole),
                  whole > 0, whole % 2 = 1)

\* round(pl_votes / base_votes, 4), in ten-thousandths, for pl_votes >= 0 and
\* base_votes > 0: the 4-decimal value nearest to the float quotient.  When the
\* exact quotient is half-way between two such values the float decides: the
\* side it fell on, or the even neighbour when the quotient is itself a float.
RoundMagnitude(pl_votes, base_votes) ==
    LET d    == DecimalDivide(pl_votes \div base_votes, pl_votes % base_votes,
                              base_votes, 4)
        q    == d[1]
        r    == d[2]
        side == DivideSide(pl_votes, base_votes)
    IN  IF 2 * r < base_votes THEN q
        ELSE IF 2 * r > base_votes THEN q + 1
        ELSE IF side > 0 THEN q + 1
        ELSE IF side < 0 THEN q
        ELSE IF q % 2 = 0 THEN q ELSE q + 1

\* variant of Round4 that truncates
RoundTrunc(pl_votes, base_votes) ==
    DecimalDivide(pl_votes \div base_votes, pl_votes % base_votes, base_votes, 4)[1]

\* round(pl_votes / base_votes, 4), in ten-thousandths, for base_votes > 0.  Both
\* "/" and round() treat a negative quotient as the mirror image of its magnitude.
Round4(pl_votes, base_votes) ==
    IF pl_votes < 0 THEN 0 - RoundMagnitude(0 - pl_votes, base_votes)
    ELSE RoundMagnitude(pl_votes, base_votes)

\* winner_votes if winner_votes > 0 else 1
BaseVotes(winner_votes) == IF winner_votes > 0 THEN winner_votes ELSE 1

\* variant of RankPasses that lets rank 8 through
RankPassesLoose(pl_rank) == pl_rank <= TopRank + 1

RankPasses(pl_rank) == pl_rank <= TopRank

Skip == [kind |-> "skip"]

Raise == [kind |-> "raise"]

\* province_map.get(area_code[:2], "Unknown")
ProvinceName(area_code, province_map) == Get(province_map, Prefix2(area_code), Unknown)

\* what json.load returns for a JSON number or for null: an int or None
IntValue(n) == [isNone |-> FALSE, val |-> n]

NoneValue == [isNone |-> TRUE, val |-> 0]

\* One iteration of the loop over mp_files for a file f =
\* [pl_exists, load_ok, mp_is_dict, pl_is_dict, mp_data, pl_data]: "skip"
\* (continue or fall through), "record" (anomalies.append) or "raise" (an
\* uncaught exception), in the order in which the loop body evaluates.
TwinMatch(area_code, f, province_map) ==
    IF ~f.pl_exists THEN Skip
    ELSE IF ~f.load_ok THEN Skip
    \* mp_data.get / pl_data.get on a list, str, number or None: AttributeError
    ELSE IF ~f.mp_is_dict THEN Raise
    ELSE IF ~f.pl_is_dict THEN Raise
    ELSE
    LET mp_entries == Get(f.mp_data, "entries", <<>>)
        pl_entries == Get(f.pl_data, "entries", <<>>)
    IN
    IF mp_entries = <<>> THEN Skip
    ELSE
    LET winner         == mp_entries[1]
        winner_num_str == get_candidate_number_str(Get(winner, "candidateCode", None),
                                                   area_code)
    IN
    IF ~Truthy(winner_num_str) THEN Skip
    ELSE
    LET winner_party_code == Get(winner, "partyCode", <<>>)
        winner_votes      == Get(winner, "voteTotal", IntValue(0))
        target_party_id   == PARTY_PREFIX \o Format04d(PyInt(winner_num_str).val)
        pl_twin           == FirstWithParty(pl_entries, target_party_id)
        mp_twin           == FirstWithParty(mp_entries, target_party_id)
        mp_twin_votes     == IF mp_twin # 0
                             THEN Get(mp_entries[mp_twin], "voteTotal", IntValue(0))
                             ELSE IntValue(0)
    IN
    IF pl_twin = 0 THEN Skip
    ELSE
    LET pl_twin_entry == pl_entries[pl_twin]
        pl_votes      == Get(pl_twin_entry, "voteTotal", IntValue(0))
        pl_rank       == Get(pl_twin_entry, "rank", NoneValue)
    IN
    \* winner_votes is None: "None > 0" raises TypeError
    IF winner_votes.isNone THEN Raise
    \* pl_votes is None: "None / base_votes" raises TypeError
    ELSE IF pl_votes.isNone THEN Raise
    ELSE
    LET base_votes      == BaseVotes(winner_votes.val)
        ratio           == Round4(pl_votes.val, base_votes)
        is_single_digit == InList(winner_num_str, SINGLE_DIGIT_RANGE)
        is_excluded     == InList(winner_num_str, EXCLUDED_PARTIES)
        is_different_party == winner_party_code # target_party_id
    IN
    IF ~(is_single_digit /\ ~is_excluded) THEN Skip
    ELSE IF ~is_different_party THEN Skip
    \* pl_rank is None: "None <= 7" raises TypeError
    ELSE IF pl_rank.isNone THEN Raise
    ELSE IF ~RankPasses(pl_rank.val) THEN Skip
    ELSE [kind |-> "record",
          rec  |-> [area_code               |-> area_code,
                    mp_winner_number        |-> winner_num_str,
                    mp_winner_party         |-> winner_party_code,
                    mp_votes                |-> winner_votes.val,
                    pl_twin_party           |-> target_party_id,
                    pl_twin_rank            |-> pl_rank.val,
                    pl_twin_votes           |-> pl_votes.val,
                    \* the one number of a record that can be None
                    mp_twin_candidate_votes |-> mp_twin_votes,
                    ratio_pl_to_mp          |-> ratio,
                    anomaly_score           |-> pl_votes.val,
                    province_id             |-> Prefix2(area_code),
                    province_name           |-> ProvinceName(area_code, province_map)]]

(***************************************************************************)
(* Sorting: list.sort / sorted with key and reverse=True (stable).         *)
(***************************************************************************)
\* variant of InsertPos that puts a later element before its equals
InsertPosTiesFirst(order, keys, k) ==
    Cardinality({j \in 1..Len(order) : keys[order[j]] > keys[k]})

\* where index k goes into an order that is already non-increasing in keys:
\* behind every element whose key is greater or equal
InsertPos(order, keys, k) ==
    Cardinality({j \in 1..Len(order) : keys[order[j]] >= keys[k]})

\* the stable non-increasing order of the indices 1..Len(keys)
RECURSIVE OrderDesc(_, _, _)
OrderDesc(keys, k, order) ==
    IF k > Len(keys) THEN order
    ELSE LET pos == InsertPos(order, keys, k)
         IN  OrderDesc(keys, k + 1,
                       SubSeq(order, 1, pos) \o <<k>> \o SubSeq(order, pos + 1, Len(order)))

\* s sorted by keys (keys[k] is the key of s[k]), reverse=True
SortedDesc(s, keys) ==
    LET order == OrderDesc(keys, 1, <<>>)
    IN  [j \in 1..Len(s) |-> s[order[j]]]

\* anomalies.sort(key=lambda x: x["anomaly_score"], reverse=True)
SortAnomalies(anoms) ==
    SortedDesc(anoms, [k \in 1..Len(anoms) |-> anoms[k].anomaly_score])

(***************************************************************************)
(* Score aggregator.  A defaultdict is a sequence of buckets in insertion  *)
(* order, which is the order .values() iterates in.                        *)
(***************************************************************************)
IndexOf(buckets, field, key) ==
    LET hits == {k \in 1..Len(buckets) : buckets[k][field] = key}
    IN  IF hits = {} THEN 0 ELSE CHOOSE k \in hits : TRUE

\* variant of BumpProvince that assigns instead of incrementing
BumpProvinceReset(provinces, p_name) == <<<<p_name, 1>>>>

\* entry["provinces"][p_name] += 1 on a defaultdict(int) kept as <<name, n>> pairs
BumpProvince(provinces, p_name) ==
    LET hits == {k \in 1..Len(provinces) : provinces[k][1] = p_name}
    IN  IF hits = {} THEN Append(provinces, <<p_name, 1>>)
        ELSE LET k == CHOOSE k \in hits : TRUE
             IN  [provinces EXCEPT ![k] = <<p_name, provinces[k][2] + 1>>]

\* variant of AddProvince that assigns the votes instead of adding them
AddProvinceAssign(stats, a) ==
    LET idx == IndexOf(stats, "id", a.province_id)
        old == IF idx = 0
               THEN [count |-> 0, total_ghost_votes |-> 0, areas |-> <<>>]
               ELSE stats[idx]
        entry == [id                |-> a.province_id,
                  name              |-> a.province_name,
                  count             |-> old.count + 1,
                  total_ghost_votes |-> a.pl_twin_votes,
                  areas             |-> Append(old.areas, a.area_code)]
    IN  IF idx = 0 THEN Append(stats, entry) ELSE [stats EXCEPT ![idx] = entry]

\* the body of "for a in anomalies" over province_stats
AddProvince(stats, a) ==
    LET idx == IndexOf(stats, "id", a.province_id)
        old == IF idx = 0
               THEN [count |-> 0, total_ghost_votes |-> 0, areas |-> <<>>]
               ELSE stats[idx]
        entry == [id                |-> a.province_id,
                  name              |-> a.province_name,
                  count             |-> old.count + 1,
                  total_ghost_votes |-> old.total_ghost_votes + a.pl_twin_votes,
                  areas             |-> Append(old.areas, a.area_code)]
    IN  IF idx = 0 THEN Append(stats, entry) ELSE [stats EXCEPT ![idx] = entry]

\* the body of "for a in anomalies" over mp_party_stats
AddParty(stats, a) ==
    LET idx == IndexOf(stats, "party_code", a.mp_winner_party)
        old == IF idx = 0
               THEN [count |-> 0, total_ghost_votes |-> 0, provinces |-> <<>>]
               ELSE stats[idx]
        entry == [party_code        |-> a.mp_winner_party,
                  count             |-> old.count + 1,
                  total_ghost_votes |-> old.total_ghost_votes + a.pl_twin_votes,
                  provinces         |-> BumpProvince(old.provinces, a.province_name)]
    IN  IF idx = 0 THEN Append(stats, entry) ELSE [stats EXCEPT ![idx] = entry]

RECURSIVE FoldProvinces(_, _)
FoldProvinces(anoms, stats) ==
    IF anoms = <<>> THEN stats
    ELSE FoldProvinces(Tail(anoms), AddProvince(stats, Head(anoms)))

RECURSIVE FoldParties(_, _)
FoldParties(anoms, stats) ==
    IF anoms = <<>> THEN stats
    ELSE FoldParties(Tail(anoms), AddParty(stats, Head(anoms)))

\* sorted(province_stats.values(), key=total_ghost_votes, reverse=True)
SortedProvinces(anoms) ==
    LET stats == FoldProvinces(anoms, <<>>)
    IN  SortedDesc(stats, [k \in 1..Len(stats) |-> stats[k].total_ghost_votes])

\* sorted(mp_party_stats.values(), key=count, reverse=True)
SortedMpParties(anoms) ==
    LET stats == FoldParties(anoms, <<>>)
    IN  SortedDesc(stats, [k \in 1..Len(stats) |-> stats[k].count])

(***************************************************************************)
(* Report assembler.                                                       *)
(***************************************************************************)
NoReport ==
    [written |-> FALSE, total_areas_flagged |-> 0, anomalies |-> <<>>,
     province_stats |-> <<>>, mp_party_stats |-> <<>>]

\* output_data, built after anomalies.sort(...)
OutputData(sorted) ==
    [written             |-> TRUE,
     total_areas_flagged |-> Len(sorted),
     anomalies           |-> sorted,
     province_stats      |-> SortedProvinces(sorted),
     mp_party_stats      |-> SortedMpParties(sorted)]

(***************************************************************************)
(* The run of main().                                                      *)
(***************************************************************************)
VARIABLES
    mp_dir_exists,  \* os.path.exists(MP_DIR)
    common_data,    \* the province reference file: [exists, readable, provinces]
    listing,        \* os.listdir(MP_DIR): a set of file names
    fs,             \* file name -> [pl_exists, load_ok, mp_is_dict, pl_is_dict,
                    \*               mp_data, pl_data]
    pc,             \* "start", "scan", "done", "aborted" or "crashed"
    province_map,   \* the loaded reference: 2-character code -> name
    mp_files,       \* the sorted .json names
    i,              \* position of the loop over mp_files
    anomalies,      \* the anomalies list
    report,         \* the document written to OUTPUT_FILE
    exit_code       \* exit status of the process once pc is terminal

inputs == <<mp_dir_exists, common_data, listing, fs>>

vars == <<mp_dir_exists, common_data, listing, fs, pc, province_map, mp_files, i,
          anomalies, report, exit_code>>

Terminal == pc \in {"done", "aborted", "crashed"}

\* sorted([f for f in os.listdir(MP_DIR) if f.endswith(".json")])
JsonFiles(names) == SortedNames({f \in names : EndsWith(f, JSON_EXT)})

AreaCodeOf(filename) == RemoveAll(filename, JSON_EXT)

\* MP_DIR is missing: print the error and return from main()
AbortMissingDir ==
    /\ pc = "start"
    /\ ~mp_dir_exists
    /\ province_map' = load_province_map(common_data)
    /\ pc' = "aborted"
    /\ UNCHANGED <<inputs, mp_files, i, anomalies, report, exit_code>>

\* load the reference and list the MP directory
ListFiles ==
    /\ pc = "start"
    /\ mp_dir_exists
    /\ province_map' = load_province_map(common_data)
    /\ mp_files' = JsonFiles(listing)
    /\ pc' = "scan"
    /\ UNCHANGED <<inputs, i, anomalies, report, exit_code>>

\* one iteration of "for filename in mp_files"
ScanArea ==
    /\ pc = "scan"
    /\ i <= Len(mp_files)
    /\ LET filename == mp_files[i]
           out      == TwinMatch(AreaCodeOf(filename), fs[filename], province_map)
       IN  IF out.kind = "raise"
           THEN /\ pc' = "crashed"
                /\ exit_code' = 1
                /\ UNCHANGED <<i, anomalies>>
           ELSE /\ anomalies' = IF out.kind = "record" THEN Append(anomalies, out.rec)
                                ELSE anomalies
                /\ i' = i + 1
                /\ UNCHANGED <<pc, exit_code>>
    /\ UNCHANGED <<inputs, province_map, mp_files, report>>

\* rows of the printed summary of anomalies
SummaryRows == 10

\* the summary formats mp_twin_candidate_votes with "<14": None raises TypeError
SummaryRaises(sorted) ==
    \E k \in 1..Len(sorted) : k <= SummaryRows /\ sorted[k].mp_twin_candidate_votes.isNone

\* after the loop: sort, aggregate, write the report, print the summaries
Finish ==
    /\ pc = "scan"
    /\ i > Len(mp_files)
    /\ anomalies' = SortAnomalies(anomalies)
    /\ report' = OutputData(anomalies')
    /\ IF SummaryRaises(anomalies')
       THEN pc' = "crashed" /\ exit_code' = 1
       ELSE pc' = "done" /\ exit_code' = exit_code
    /\ UNCHANGED <<inputs, province_map, mp_files, i>>

Next == AbortMissingDir \/ ListFiles \/ ScanArea \/ Finish

InitRun ==
    /\ pc = "start"
    /\ province_map = EmptyMap
    /\ mp_files = <<>>
    /\ i = 1
    /\ anomalies = <<>>
    /\ report = NoReport
    /\ exit_code = 0

(***************************************************************************)
(* Inputs.                                                                 *)
(***************************************************************************)
PARTY_0002 == <<"P", "A", "R", "T", "Y", "-", "0", "0", "0", "2">>
PARTY_0003 == <<"P", "A", "R", "T", "Y", "-", "0", "0", "0", "3">>
PARTY_0005 == <<"P", "A", "R", "T", "Y", "-", "0", "0", "0", "5">>
PARTY_0007 == <<"P", "A", "R", "T", "Y", "-", "0", "0", "0", "7">>
PARTY_0009 == <<"P", "A", "R", "T", "Y", "-", "0", "0", "0", "9">>
PARTY_0010 == <<"P", "A", "R", "T", "Y", "-", "0", "0", "1", "0">>

Bangkok == <<"B", "a", "n", "g", "k", "o", "k">>
Krabi == <<"K", "r", "a", "b", "i">>

NotesTxt == <<"n", "o", "t", "e", "s", ".", "t", "x", "t">>

\* an MP entry; c = None, p = None or ~v[1] leave the key out, v[2] is the
\* value of voteTotal (an IntValue or NoneValue)
MpEntry(c, p, v) ==
    LET full == [candidateCode |-> c, partyCode |-> p, voteTotal |-> v[2]]
        keys == {k \in {"candidateCode"} : c # None} \cup {k \in {"partyCode"} : p # None}
                \cup {k \in {"voteTotal"} : v[1]}
    IN  [k \in keys |-> full[k]]

\* a PL entry; p = None, ~v[1] or ~r[1] leave the key out, v[2] and r[2] are
\* the values of voteTotal and rank (an IntValue or NoneValue)
PlEntry(p, v, r) ==
    LET full == [partyCode |-> p, voteTotal |-> v[2], rank |-> r[2]]
        keys == {k \in {"partyCode"} : p # None} \cup {k \in {"voteTotal"} : v[1]}
                \cup {k \in {"rank"} : r[1]}
    IN  [k \in keys |-> full[k]]

\* a key that is absent, or present with an int of S
Opt(S) == {<<FALSE, 0>>} \cup {<<TRUE, IntValue(x)>> : x \in S}

\* a key that is present with null
IsNull == <<TRUE, NoneValue>>

OkFile(mp_entries, pl_entries) ==
    [pl_exists |-> TRUE, load_ok |-> TRUE, mp_is_dict |-> TRUE, pl_is_dict |-> TRUE,
     mp_data |-> [entries |-> mp_entries], pl_data |-> [entries |-> pl_entries]]

\* an MP file without its PL pair
NoPlFile ==
    [pl_exists |-> FALSE, load_ok |-> TRUE, mp_is_dict |-> TRUE, pl_is_dict |-> TRUE,
     mp_data |-> [entries |-> <<>>], pl_data |-> [entries |-> <<>>]]

\* json.load raises on one of the two files
UnreadableFile ==
    [pl_exists |-> TRUE, load_ok |-> FALSE, mp_is_dict |-> TRUE, pl_is_dict |-> TRUE,
     mp_data |-> [entries |-> <<>>], pl_data |-> [entries |-> <<>>]]

\* both documents are objects without an "entries" key
NoEntriesFile ==
    [pl_exists |-> TRUE, load_ok |-> TRUE, mp_is_dict |-> TRUE, pl_is_dict |-> TRUE,
     mp_data |-> [note |-> <<>>], pl_data |-> [note |-> <<>>]]

\* the MP document is valid JSON but not an object, e.g. "[]"
MpNotObjectFile(pl_entries) ==
    [pl_exists |-> TRUE, load_ok |-> TRUE, mp_is_dict |-> FALSE, pl_is_dict |-> TRUE,
     mp_data |-> <<>>, pl_data |-> [entries |-> pl_entries]]

\* the PL document is valid JSON but not an object, e.g. "[]"
PlNotObjectFile(mp_entries) ==
    [pl_exists |-> TRUE, load_ok |-> TRUE, mp_is_dict |-> TRUE, pl_is_dict |-> FALSE,
     mp_data |-> [entries |-> mp_entries], pl_data |-> <<>>]

NoCommonData == [exists |-> FALSE, readable |-> FALSE, provinces |-> <<>>]

BadCommonData == [exists |-> TRUE, readable |-> FALSE, provinces |-> <<>>]

CommonData(provs) == [exists |-> TRUE, readable |-> TRUE, provinces |-> provs]

PROVINCE_10 == PROVINCE_PREFIX \o <<"1", "0">>
PROVINCE_81 == PROVINCE_PREFIX \o <<"8", "1">>

\* a reference that names province 10 only
Reference10 == CommonData(<<[code |-> PROVINCE_10, name |-> Bangkok]>>)

\* a reference that does not name province 10
Reference81 == CommonData(<<[code |-> PROVINCE_81, name |-> Krabi]>>)

(***************************************************************************)
(* Specification SpecMatch: one area, 100105, with every combination of    *)
(* winner candidate code, party, votes and party-list entries, or with a   *)
(* second file name that line 68 turns into the same area code.            *)
(***************************************************************************)
Area100105 == <<"1", "0", "0", "1", "0", "5">>

File100105 == Area100105 \o JSON_EXT

PARTY_0000 == <<"P", "A", "R", "T", "Y", "-", "0", "0", "0", "0">>
PARTY_0001 == <<"P", "A", "R", "T", "Y", "-", "0", "0", "0", "1">>
PARTY_0004 == <<"P", "A", "R", "T", "Y", "-", "0", "0", "0", "4">>
PARTY_0006 == <<"P", "A", "R", "T", "Y", "-", "0", "0", "0", "6">>
PARTY_0008 == <<"P", "A", "R", "T", "Y", "-", "0", "0", "0", "8">>
PARTY_minus005 == <<"P", "A", "R", "T", "Y", "-", "-", "0", "0", "5">>

\* what follows the prefix "CANDIDATE-MP-100105" in the winner's candidate code,
\* each with the party code a party-list entry needs to be found as its twin
Remainders ==
    { <<<<"1">>, PARTY_0001>>, <<<<"2">>, PARTY_0002>>, <<<<"3">>, PARTY_0003>>,
      <<<<"4">>, PARTY_0004>>, <<<<"5">>, PARTY_0005>>, <<<<"7">>, PARTY_0007>>,
      <<<<"8">>, PARTY_0008>>,
      <<<<"6">>, PARTY_0006>>, <<<<"9">>, PARTY_0009>>, <<<<"1", "0">>, PARTY_0010>>,
      <<<<"0">>, PARTY_0000>>, <<<<"-", "5">>, PARTY_minus005>>,
      <<<<"0", "5">>, PARTY_0005>>, <<<<" ", "5">>, PARTY_0005>>,
      <<<<"\t", "5", "\n">>, PARTY_0005>>, <<<<VerticalTab, "5", "\r">>, PARTY_0005>>,
      <<<<"U+00A0", "5", "U+0085">>, PARTY_0005>>, <<<<"U+0665">>, PARTY_0005>>,
      <<<<>>, PARTY_0005>>, <<<<"x">>, PARTY_0005>> }

\* the winner's candidate code (None: no such key), with the twin's party code
CandidateCodes ==
    { <<None, PARTY_0005>>,
      <<CANDIDATE_PREFIX \o <<"1", "0", "0", "1", "0", "6", "5">>, PARTY_0005>> }
    \cup {<<CANDIDATE_PREFIX \o Area100105 \o r[1], r[2]>> : r \in Remainders}

\* the winners of candidate code c[1]: of no party, of PARTY-0002 or of the
\* twin's party
WinnerEntries(c) ==
    {MpEntry(c[1], p, v) : p \in {None, PARTY_0002, c[2]},
                           v \in Opt({0, 12, 8000}) \cup {IsNull}}

\* the twin party's own constituency candidate
CompanionEntry(twin) ==
    MpEntry(CANDIDATE_PREFIX \o Area100105 \o <<"2">>, twin, <<TRUE, IntValue(12)>>)

\* party-list entries of no party, of the twin party and of another party
PlEntries(twin) ==
    {PlEntry(p, v, r) : p \in {None, twin, PARTY_0003},
                        v \in Opt({6, 500, 4000}) \cup {IsNull}, r \in Opt({3, 7, 8})}

SecondTwin(twin) == PlEntry(twin, <<TRUE, IntValue(12)>>, <<TRUE, IntValue(3)>>)

OtherParty == PlEntry(PARTY_0002, <<TRUE, IntValue(4000)>>, <<TRUE, IntValue(1)>>)

PlLists(twin) ==
    {<<>>} \cup {<<e>> : e \in PlEntries(twin)}
    \cup {<<e, SecondTwin(twin)>> : e \in PlEntries(twin)}
    \cup {<<OtherParty, e>> : e \in PlEntries(twin)}

\* the MP entries: the winner, followed or not by the twin party's candidate
MpLists(w, twin) == {<<w>>, <<w, CompanionEntry(twin)>>}

ExampleWinner ==
    MpEntry(CANDIDATE_PREFIX \o Area100105 \o <<"5">>, PARTY_0002, <<TRUE, IntValue(8000)>>)

ExampleTwin == PlEntry(PARTY_0005, <<TRUE, IntValue(4000)>>, <<TRUE, IntValue(3)>>)

\* the twin party's own candidate and the twin's rank, both null
NullCompanion ==
    MpEntry(CANDIDATE_PREFIX \o Area100105 \o <<"2">>, PARTY_0005, IsNull)

NullRankTwin == PlEntry(PARTY_0005, <<TRUE, IntValue(4000)>>, IsNull)

\* ballot number 5 written with `digits` digits: zeros, then "5"
PaddedFive(digits) == [k \in 1..digits |-> IF k < digits THEN "0" ELSE "5"]

\* a winner whose ballot number 5 is written with `digits` digits
PaddedWinner(digits) ==
    MpEntry(CANDIDATE_PREFIX \o Area100105 \o PaddedFive(digits), PARTY_0002,
            <<TRUE, IntValue(8000)>>)

\* vote totals below zero, which json.load returns as they are written
NegativeWinner ==
    MpEntry(CANDIDATE_PREFIX \o Area100105 \o <<"5">>, PARTY_0002, <<TRUE, IntValue(-3)>>)

SmallWinner ==
    MpEntry(CANDIDATE_PREFIX \o Area100105 \o <<"5">>, PARTY_0002, <<TRUE, IntValue(32)>>)

NegativeTwins ==
    {PlEntry(PARTY_0005, <<TRUE, IntValue(v)>>, <<TRUE, IntValue(3)>>) :
        v \in {-1, -3, -500}}

\* the defective files, the example of the report's documentation, the longest
\* number int() converts and the next longer one, and vote totals below zero
PlainFiles ==
    {NoPlFile, UnreadableFile, NoEntriesFile, OkFile(<<>>, <<ExampleTwin>>),
     OkFile(<<ExampleWinner>>, <<ExampleTwin>>),
     OkFile(<<PaddedWinner(MaxStrDigits)>>, <<ExampleTwin>>),
     OkFile(<<PaddedWinner(MaxStrDigits + 1)>>, <<ExampleTwin>>),
     OkFile(<<NegativeWinner>>, <<ExampleTwin>>),
     MpNotObjectFile(<<ExampleTwin>>), PlNotObjectFile(<<ExampleWinner>>),
     OkFile(<<ExampleWinner, NullCompanion>>, <<ExampleTwin>>),
     OkFile(<<ExampleWinner>>, <<NullRankTwin>>)}
    \cup {OkFile(<<w>>, <<t>>) : w \in {SmallWinner, ExampleWinner},
                                 t \in NegativeTwins}

\* a winner with the excluded ballot number 9, and its twin party at rank 3
ExcludedWinner ==
    MpEntry(CANDIDATE_PREFIX \o Area100105 \o <<"9">>, PARTY_0002, <<TRUE, IntValue(8000)>>)

ExcludedTwin == PlEntry(PARTY_0009, <<TRUE, IntValue(4000)>>, <<TRUE, IntValue(3)>>)

\* a second file name from which line 68 derives the area code 100105
File100105Twice == File100105 \o JSON_EXT

\* the pairs of files under the two names
TwiceFiles ==
    {OkFile(<<ExampleWinner>>, <<ExampleTwin>>),
     OkFile(<<ExcludedWinner>>, <<ExcludedTwin>>)}
        \X {NoPlFile, OkFile(<<ExampleWinner>>, <<ExampleTwin>>)}

InitMatch ==
    /\ InitRun
    /\ \/ /\ mp_dir_exists = TRUE
          /\ common_data = Reference10
          /\ listing = {File100105, NotesTxt}
          /\ \E c \in CandidateCodes :
                \E w \in WinnerEntries(c), pl \in PlLists(c[2]) :
                   \E mp \in MpLists(w, c[2]) :
                      fs = [n \in {File100105} |-> OkFile(mp, pl)]
       \/ /\ mp_dir_exists \in BOOLEAN
          /\ common_data \in {NoCommonData, BadCommonData, Reference10, Reference81}
          /\ listing = {File100105, NotesTxt}
          /\ \E f \in PlainFiles : fs = [n \in {File100105} |-> f]
       \/ /\ mp_dir_exists = TRUE
          /\ common_data = Reference10
          /\ listing = {File100105, File100105Twice, NotesTxt}
          /\ \E f \in TwiceFiles :
                fs = [n \in {File100105, File100105Twice} |->
                         IF n = File100105 THEN f[1] ELSE f[2]]

SpecMatch == InitMatch /\ [][Next]_vars

(***************************************************************************)
(* Specification Spec: MaxAreas areas of two or more provinces; every area *)
(* is either defective or has a winner with ballot number 5 and a twin      *)
(* PARTY-0005 whose votes, and the winner's party, vary.                    *)
(***************************************************************************)
AllAreas ==
    << <<"1", "0", "0", "1">>, <<"1", "0", "0", "2">>, <<"2", "0", "0", "1">>,
       <<"2", "0", "0", "2">>, <<"3", "0", "0", "1">> >>

Areas == {AllAreas[k] : k \in 1..MaxAreas}

\* the shapes of an area's pair of files: <<kind, winner's party, twin's votes>>
FileShapes ==
    {<<"twin", p, v>> : p \in {PARTY_0002, PARTY_0003}, v \in {200, 300, 500}}
    \cup {<<"nopl", PARTY_0002, 500>>, <<"rank8", PARTY_0002, 500>>,
          <<"norank", PARTY_0002, 500>>, <<"notobject", PARTY_0002, 500>>}

AreaFile(a, shape) ==
    LET winner == MpEntry(CANDIDATE_PREFIX \o a \o <<"5">>, shape[2],
                          <<TRUE, IntValue(8000)>>)
        twin(r) == PlEntry(PARTY_0005, <<TRUE, IntValue(shape[3])>>, r)
    IN  CASE shape[1] = "twin"   -> OkFile(<<winner>>, <<twin(<<TRUE, IntValue(3)>>)>>)
          [] shape[1] = "rank8"  -> OkFile(<<winner>>, <<twin(<<TRUE, IntValue(8)>>)>>)
          [] shape[1] = "norank" -> OkFile(<<winner>>, <<twin(<<FALSE, 0>>)>>)
          [] shape[1] = "notobject" -> PlNotObjectFile(<<winner>>)
          [] OTHER               -> NoPlFile

AreaFileNames == {a \o JSON_EXT : a \in Areas}

Init ==
    /\ InitRun
    /\ listing = AreaFileNames \cup {NotesTxt}
    /\ common_data = Reference10
    /\ \/ /\ mp_dir_exists = TRUE
          /\ \E shape \in [Areas -> FileShapes] :
                fs = [n \in AreaFileNames |-> AreaFile(AreaCodeOf(n), shape[AreaCodeOf(n)])]
       \/ /\ mp_dir_exists = FALSE
          /\ fs = [n \in AreaFileNames |-> NoPlFile]

Spec == Init /\ [][Next]_vars

(***************************************************************************)
(* Properties of the twin matcher, checked under SpecMatch.                *)
(***************************************************************************)
Range(q) == {q[k] : k \in 1..Len(q)}

FileNames == DOMAIN fs

\* the records of the anomalies list for an area
RecordsOf(a) == {k \in 1..Len(anomalies) : anomalies[k].area_code = a}

\* the file pair of name n has been loaded, both documents are objects and the
\* MP document has entries
Loaded(n) ==
    /\ fs[n].pl_exists
    /\ fs[n].load_ok
    /\ fs[n].mp_is_dict /\ fs[n].pl_is_dict
    /\ Get(fs[n].mp_data, "entries", <<>>) # <<>>

WinnerOf(n) == fs[n].mp_data.entries[1]

\* the winner's candidate code carries the prefix and an integer remainder
HasBallotNumber(n) ==
    /\ Loaded(n)
    /\ "candidateCode" \in DOMAIN WinnerOf(n)
    /\ StartsWith(WinnerOf(n).candidateCode, CANDIDATE_PREFIX \o AreaCodeOf(n))
    /\ PyInt(SubSeq(WinnerOf(n).candidateCode,
                    Len(CANDIDATE_PREFIX \o AreaCodeOf(n)) + 1,
                    Len(WinnerOf(n).candidateCode))).ok

BallotNumber(n) ==
    PyInt(SubSeq(WinnerOf(n).candidateCode,
                 Len(CANDIDATE_PREFIX \o AreaCodeOf(n)) + 1,
                 Len(WinnerOf(n).candidateCode))).val

\* the loop has gone past the file of name n
Scanned(n) == \E k \in 1..Len(mp_files) : mp_files[k] = n /\ k < i

\* "PARTY-" and the one-digit number d zero-padded to 4 digits
TwinCode(d) == PARTY_PREFIX \o <<"0", "0", "0", DigitChars[d + 1]>>

\* the PL entries of file n whose party code is p, by position
PlHits(n, p) ==
    LET pl == Get(fs[n].pl_data, "entries", <<>>)
    IN  {k \in 1..Len(pl) : "partyCode" \in DOMAIN pl[k] /\ pl[k].partyCode = p}

\* the first PL entry of file n with party code p (PlHits(n, p) is not empty)
FirstPl(n, p) ==
    fs[n].pl_data.entries[CHOOSE k \in PlHits(n, p) : \A j \in PlHits(n, p) : k <= j]

\* the vote total of entry e is an integer where the key is present
VotesAreInt(e) == ~Get(e, "voteTotal", IntValue(0)).isNone

\* the vote total of entry e, 0 when the key is absent
VotesOf(e) == Get(e, "voteTotal", IntValue(0)).val

\* the winner's ballot number of file n is outside 1..9, or is 6 or 9
ExcludedNumber(n) ==
    /\ HasBallotNumber(n)
    /\ (BallotNumber(n) \notin 1..9 \/ BallotNumber(n) \in {6, 9})

\* rank 8 or more has no record.
C2_DistinctAndTopSeven ==
    /\ \A k \in 1..Len(anomalies) :
          /\ anomalies[k].pl_twin_party # anomalies[k].mp_winner_party
          /\ anomalies[k].pl_twin_rank <= 7
    /\ \A n \in FileNames :
          HasBallotNumber(n) =>
             LET d == BallotNumber(n)
             IN  (/\ d \in 1..9
                  /\ PlHits(n, TwinCode(d)) # {}
                  /\ "rank" \in DOMAIN FirstPl(n, TwinCode(d))
                  /\ ~FirstPl(n, TwinCode(d)).rank.isNone
                  /\ FirstPl(n, TwinCode(d)).rank.val >= 8)
                 => RecordsOf(AreaCodeOf(n)) = {}

\* C2 witness: the run is over, the winner had number 5 and another party, the
\* twin PARTY-0005 was found with rank 8, and nothing was flagged.
C2_Witness ==
    /\ pc = "done"
    /\ HasBallotNumber(File100105) /\ BallotNumber(File100105) = 5
    /\ Get(WinnerOf(File100105), "partyCode", <<>>) = PARTY_0002
    /\ PlHits(File100105, PARTY_0005) # {}
    /\ "rank" \in DOMAIN FirstPl(File100105, PARTY_0005)
    /\ FirstPl(File100105, PARTY_0005).rank = IntValue(8)
    /\ anomalies = <<>>

\* the PL entries of file n with party code p and an integer rank of 7 or less
TopSevenHits(n, p) ==
    LET pl == Get(fs[n].pl_data, "entries", <<>>)
    IN  {k \in PlHits(n, p) :
            /\ "rank" \in DOMAIN pl[k]
            /\ ~pl[k].rank.isNone
            /\ pl[k].rank.val <= 7}

\* the file of name n passes the steps of the twin matcher with ballot number d:
\* loaded, winner with the area prefix and the integer remainder d, d one of
\* 1,2,3,4,5,7,8, a PL entry of "PARTY-000d" of rank 7 or less, another winner party
PassesAllSteps(n, d) ==
    /\ HasBallotNumber(n) /\ BallotNumber(n) = d
    /\ d \in {1, 2, 3, 4, 5, 7, 8}
    /\ TwinCode(d) # Get(WinnerOf(n), "partyCode", <<>>)
    /\ TopSevenHits(n, TwinCode(d)) # {}

\* the records of the list q for the area of file n are exactly one, which
\* carries number d, twin "PARTY-000d", the votes of PL entry h as twin votes and
\* score, and the winner's votes
OneRecordOf(q, n, d, h) ==
    LET hits == {k \in 1..Len(q) : q[k].area_code = AreaCodeOf(n)}
        pl == fs[n].pl_data.entries
    IN  /\ Cardinality(hits) = 1
        /\ \A k \in hits :
              /\ q[k].mp_winner_number = <<DigitChars[d + 1]>>
              /\ q[k].pl_twin_party = TwinCode(d)
              /\ VotesAreInt(pl[h]) /\ VotesAreInt(WinnerOf(n))
              /\ q[k].pl_twin_votes = VotesOf(pl[h])
              /\ q[k].anomaly_score = VotesOf(pl[h])
              /\ q[k].mp_votes = VotesOf(WinnerOf(n))

\* C3: when a run with the MP directory is over, every area that passes the steps
\* of the twin matcher with ballot number d has exactly one record in the anomalies
\* list: its number is d without leading zeros, its twin is "PARTY-000d", its twin
\* votes and score are the vote total of a PL entry of that party with rank 7 or
\* less, and its MP votes are the winner's vote total.
C3_PassingAreaOneRecord ==
    (Terminal /\ mp_dir_exists)
    => \A n \in FileNames : \A d \in 1..9 :
          PassesAllSteps(n, d)
          => \E h \in TopSevenHits(n, TwinCode(d)) : OneRecordOf(anomalies, n, d, h)

\* the part of C3 the code keeps: an area alone under its area code, whose twin is
\* the first PL entry of party "PARTY-000d" and whose vote totals are integers
FirstTwinOneRecord ==
    \A n \in FileNames : \A d \in 1..9 :
        (/\ Scanned(n) /\ PassesAllSteps(n, d)
         /\ \A m \in FileNames : AreaCodeOf(m) = AreaCodeOf(n) => m = n
         /\ \A k \in TopSevenHits(n, TwinCode(d)) : \A j \in PlHits(n, TwinCode(d)) : k <= j
         /\ VotesAreInt(WinnerOf(n)) /\ VotesAreInt(FirstPl(n, TwinCode(d))))
        => \E h \in TopSevenHits(n, TwinCode(d)) : OneRecordOf(anomalies, n, d, h)

\* C7: when the MP directory exists the run never fails hard: it ends only after
\* visiting every area and writing the report.
C7_NeverFailsHard ==
    (mp_dir_exists /\ Terminal)
    => (pc = "done" /\ report.written /\ i = Len(mp_files) + 1)

\* C8: the run ends with a non-zero status exactly when the MP directory is
\* missing, and then no area was processed and no report was written.
C8_NonZeroIffMissingDir ==
    Terminal
    => /\ (exit_code # 0) <=> ~mp_dir_exists
       /\ ~mp_dir_exists => (anomalies = <<>> /\ ~report.written)

\* C9: the ratio of every record is pl_twin_votes / max(mp_votes, 1) rounded to 4
\* decimals (no 4-decimal value is nearer to the quotient); 500 votes over a
\* zero-vote winner give 500.0000, 4000 over 8000 give 0.5.
C9_RatioGuardedAndRounded ==
    \A k \in 1..Len(anomalies) :
        LET r    == anomalies[k]
            d    == IF r.mp_votes >= 1 THEN r.mp_votes ELSE 1
            diff == RatioScale * r.pl_twin_votes - r.ratio_pl_to_mp * d
        IN  /\ 2 * diff <= d /\ 2 * (0 - diff) <= d
            /\ (r.mp_votes = 0 /\ r.pl_twin_votes = 500) => r.ratio_pl_to_mp = 5000000
            /\ (r.mp_votes = 8000 /\ r.pl_twin_votes = 4000) => r.ratio_pl_to_mp = 5000

\* C9 witness: a record of a winner whose voteTotal is 0 and a twin with 500 votes.
C9_Witness ==
    /\ pc = "done"
    /\ "voteTotal" \in DOMAIN WinnerOf(File100105)
    /\ Len(report.anomalies) = 1
    /\ report.anomalies[1].mp_votes = 0
    /\ report.anomalies[1].pl_twin_votes = 500
    /\ report.anomalies[1].ratio_pl_to_mp = 5000000

\* C10: every record carries the first 2 characters of its area code as province_id
\* and, as province_name, the reference name of that code or "Unknown (<code>)".
C10_ProvinceNameOrPlaceholder ==
    \A k \in 1..Len(anomalies) :
        /\ anomalies[k].province_id = SubSeq(anomalies[k].area_code, 1, 2)
        /\ anomalies[k].province_name
              = get_province_info(anomalies[k].area_code, province_map)[2]

(***************************************************************************)
(* Properties of the report and the rollups, checked under Spec.           *)
(***************************************************************************)
\* the loop over the files in the given order, from position k with the records
\* acc: the records appended, and whether an iteration raised, which ends the loop
RECURSIVE ScanInOrder(_, _, _)
ScanInOrder(order, k, acc) ==
    IF k > Len(order) THEN [raised |-> FALSE, anomalies |-> acc]
    ELSE LET out == TwinMatch(AreaCodeOf(order[k]), fs[order[k]], province_map)
         IN  IF out.kind = "raise" THEN [raised |-> TRUE, anomalies |-> acc]
             ELSE ScanInOrder(order, k + 1,
                              IF out.kind = "record" THEN Append(acc, out.rec)
                              ELSE acc)

\* position of the area of code a in the scan order
ScanPos(a) == CHOOSE k \in 1..Len(mp_files) : AreaCodeOf(mp_files[k]) = a

\* the records of the list q whose score is v, in the order of q
WithScore(q, v) ==
    LET HasScore(r) == r.anomaly_score = v
    IN  SelectSeq(q, HasScore)

\* C4: the written anomalies are in non-increasing order of anomaly_score, and
\* the records of equal score are those the scan appended with that score, in the
\* order the scan appended them, which is ascending area code.
C4_SortedByScoreStable ==
    pc = "done" =>
        LET scanned == ScanInOrder(mp_files, 1, <<>>).anomalies
        IN  /\ \A j, k \in 1..Len(report.anomalies) :
                  j < k =>
                      /\ report.anomalies[j].anomaly_score
                            >= report.anomalies[k].anomaly_score
                      /\ report.anomalies[j].anomaly_score
                            = report.anomalies[k].anomaly_score
                         => \/ report.anomalies[j].area_code
                                  = report.anomalies[k].area_code
                            \/ StrLess(report.anomalies[j].area_code,
                                       report.anomalies[k].area_code)
            /\ \A r \in Range(scanned) \cup Range(report.anomalies) :
                  WithScore(report.anomalies, r.anomaly_score)
                     = WithScore(scanned, r.anomaly_score)

\* C4 witness: a written report with scores 500, 500, 300.
C4_Witness ==
    /\ pc = "done"
    /\ Len(report.anomalies) = 3
    /\ report.anomalies[1].anomaly_score = 500
    /\ report.anomalies[2].anomaly_score = 500
    /\ report.anomalies[3].anomaly_score = 300

\* first position in the scan order of a flagged area of province p
ProvinceFirstScanned(p) ==
    LET hits == {ScanPos(r.area_code) :
                    r \in {x \in Range(report.anomalies) : x.province_id = p}}
    IN  CHOOSE k \in hits : \A j \in hits : k <= j

\* first position in the scan order of a flagged area won by party q
PartyFirstScanned(q) ==
    LET hits == {ScanPos(r.area_code) :
                    r \in {x \in Range(report.anomalies) : x.mp_winner_party = q}}
    IN  CHOOSE k \in hits : \A j \in hits : k <= j

\* first position in the written (score-sorted) anomalies of a record of province p
ProvinceFirstSorted(p) ==
    LET hits == {k \in 1..Len(report.anomalies) : report.anomalies[k].province_id = p}
    IN  CHOOSE k \in hits : \A j \in hits : k <= j

\* first position in the written (score-sorted) anomalies of a record won by party q
PartyFirstSorted(q) ==
    LET hits == {k \in 1..Len(report.anomalies) : report.anomalies[k].mp_winner_party = q}
    IN  CHOOSE k \in hits : \A j \in hits : k <= j

\* both rollups are in non-increasing order of their sort key
RollupsSorted ==
    /\ \A j, k \in 1..Len(report.province_stats) :
          j < k => report.province_stats[j].total_ghost_votes
                      >= report.province_stats[k].total_ghost_votes
    /\ \A j, k \in 1..Len(report.mp_party_stats) :
          j < k => report.mp_party_stats[j].count >= report.mp_party_stats[k].count

\* C5: province_stats is in non-increasing order of total_ghost_votes and
\* mp_party_stats of count, and buckets of equal sort key are in the order their
\* code is first met when the records are scanned in area-code order.
C5_TiesInScanOrder ==
    pc = "done" =>
        /\ RollupsSorted
        /\ \A j, k \in 1..Len(report.province_stats) :
              (j < k /\ report.province_stats[j].total_ghost_votes
                          = report.province_stats[k].total_ghost_votes)
              => ProvinceFirstScanned(report.province_stats[j].id)
                    < ProvinceFirstScanned(report.province_stats[k].id)
        /\ \A j, k \in 1..Len(report.mp_party_stats) :
              (j < k /\ report.mp_party_stats[j].count = report.mp_party_stats[k].count)
              => PartyFirstScanned(report.mp_party_stats[j].party_code)
                    < PartyFirstScanned(report.mp_party_stats[k].party_code)

\* what the code keeps: the rollups are sorted, and buckets of equal sort key are
\* in the order their code is first met in the score-sorted anomalies list, over
\* which lines 166 and 180 fold
RollupTiesInScoreOrder ==
    pc = "done" =>
        /\ RollupsSorted
        /\ \A j, k \in 1..Len(report.province_stats) :
              (j < k /\ report.province_stats[j].total_ghost_votes
                          = report.province_stats[k].total_ghost_votes)
              => ProvinceFirstSorted(report.province_stats[j].id)
                    < ProvinceFirstSorted(report.province_stats[k].id)
        /\ \A j, k \in 1..Len(report.mp_party_stats) :
              (j < k /\ report.mp_party_stats[j].count = report.mp_party_stats[k].count)
              => PartyFirstSorted(report.mp_party_stats[j].party_code)
                    < PartyFirstSorted(report.mp_party_stats[k].party_code)

\* the document main() writes when the files are processed in the given order:
\* none when an iteration raised
ReportFor(order) ==
    LET scan == ScanInOrder(order, 1, <<>>)
    IN  IF scan.raised THEN NoReport ELSE OutputData(SortAnomalies(scan.anomalies))

\* the processing orders of the listed files
Orders ==
    {o \in [1..Len(mp_files) -> Range(mp_files)] :
        \A j, k \in 1..Len(mp_files) : j # k => o[j] # o[k]}

ProvinceBuckets(rep) ==
    {<<b.id, b.count, b.total_ghost_votes>> : b \in Range(rep.province_stats)}

PartyBuckets(rep) ==
    {<<b.party_code, b.count, b.total_ghost_votes, Range(b.provinces)>> :
        b \in Range(rep.mp_party_stats)}

\* C6: for every processing order of the same files the rollups have the same
\* buckets: per province the same count and total, per winning party the same
\* count, total and per-province occurrence counts.
C6_RollupsOrderInvariant ==
    pc = "done" =>
        \A o \in Orders :
            /\ ProvinceBuckets(ReportFor(o)) = ProvinceBuckets(report)
            /\ Len(ReportFor(o).province_stats) = Len(report.province_stats)
            /\ PartyBuckets(ReportFor(o)) = PartyBuckets(report)
            /\ Len(ReportFor(o).mp_party_stats) = Len(report.mp_party_stats)

\* C6 witness: a written report with a party flagged in two provinces, and a
\* processing order that puts the rollup's buckets in other positions.
C6_Witness ==
    /\ pc = "done"
    /\ \E b \in Range(report.mp_party_stats) : Len(b.provinces) = 2 /\ b.count = 3
    /\ \E o \in Orders : ReportFor(o).province_stats # report.province_stats

(***************************************************************************)
(* Properties of the anomalies list as a whole.                            *)
(***************************************************************************)
\* the file pairs of area code a that were read: both files exist and parse
LoadedPairs(a) ==
    {n \in FileNames : AreaCodeOf(n) = a /\ fs[n].pl_exists /\ fs[n].load_ok}

\* no two records of the list q share an area code, and each record's area code
\* is that of exactly one loaded file pair
OnePerLoadedArea(q) ==
    /\ \A j, k \in 1..Len(q) : j # k => q[j].area_code # q[k].area_code
    /\ \A k \in 1..Len(q) : Cardinality(LoadedPairs(q[k].area_code)) = 1

\* C11: at every point of the run, and in the written report, the anomalies hold
\* at most one record per area code, and each record's area code is the code of
\* one MP/PL file pair that was loaded.
C11_OneRecordPerArea ==
    /\ OnePerLoadedArea(anomalies)
    /\ OnePerLoadedArea(report.anomalies)
    /\ Len(anomalies) <= i - 1

\* the records a run over the file of name n alone appends: the same documents
\* and reference, no other area
SoloRecords(n) == Range(ScanInOrder(<<n>>, 1, <<>>).anomalies)

\* the records the run has produced for the area of the file of name n
RunRecords(n) == {r \in Range(anomalies) : r.area_code = AreaCodeOf(n)}

\* C12: whether an area yields a record, and the record, depend only on the area's
\* own documents and the reference: once the run has ended, the records it produced
\* for an area are those of a run over that area alone, whatever the other areas.
C12_OwnDocumentsOnly ==
    (mp_dir_exists /\ Terminal)
    => \A n \in FileNames : RunRecords(n) = SoloRecords(n)

(***************************************************************************)
(* The rollups against the records, checked under Spec.                    *)
(***************************************************************************)
\* sum of the integers of a sequence
RECURSIVE SumSeq(_)
SumSeq(q) == IF q = <<>> THEN 0 ELSE Head(q) + SumSeq(Tail(q))

Counts(buckets) == [k \in 1..Len(buckets) |-> buckets[k].count]

GhostVotes(buckets) == [k \in 1..Len(buckets) |-> buckets[k].total_ghost_votes]

Scores(q) == [k \in 1..Len(q) |-> q[k].anomaly_score]

\* C13: in a written report the rollups partition the records: the counts of the
\* province buckets, the counts of the party buckets and total_areas_flagged all
\* equal the number of records; the ghost votes of either rollup sum to the sum of
\* the records' anomaly_score; a province bucket lists exactly count areas, each
\* an area code that starts with the bucket's id.
C13_RollupsPartitionRecords ==
    report.written =>
        /\ SumSeq(Counts(report.province_stats)) = Len(report.anomalies)
        /\ SumSeq(Counts(report.mp_party_stats)) = Len(report.anomalies)
        /\ report.total_areas_flagged = Len(report.anomalies)
        /\ SumSeq(GhostVotes(report.province_stats)) = SumSeq(Scores(report.anomalies))
        /\ SumSeq(GhostVotes(report.mp_party_stats)) = SumSeq(Scores(report.anomalies))
        /\ \A b \in Range(report.province_stats) :
              /\ Len(b.areas) = b.count
              /\ \A k \in 1..Len(b.areas) : SubSeq(b.areas[k], 1, 2) = b.id

\* C13 witness: a written report of three records in two province buckets and two
\* party buckets, one province holding two of the areas.
C13_Witness ==
    /\ pc = "done"
    /\ report.written
    /\ Len(report.anomalies) = 3
    /\ Len(report.province_stats) = 2
    /\ Len(report.mp_party_stats) = 2
    /\ \E b \in Range(report.province_stats) : b.count = 2 /\ Len(b.areas) = 2

====
